---- MODULE Spec2Model ----
(***************************************************************************)
(* The keyboard state-machine engine of src/src/lib.rs: GlobalState with   *)
(* its two entry points tick and push, the condition evaluator, the        *)
(* first-match scan over the current state's transitions, the transition   *)
(* commit, and the three state tables the repository defines (basic,       *)
(* mod_tap_better, mod_tap).                                               *)
(*                                                                         *)
(* Encoding.  Option<T> is a sequence of length 0 (None) or 1 (Some(x)).   *)
(* StateFlags is the set of the names of the bits that are set.  A key or  *)
(* input event is a record [variant, code].  A RangeInclusive<u8> is the   *)
(* pair <<start, end>>.  Instants and durations are milliseconds.          *)
(***************************************************************************)
EXTENDS Integers, Sequences, FiniteSets, TLC

\* Largest clock reading a caller passes to tick / push.
MaxTime == 7

\* Largest keycode of an input event.
MaxKey == 2

\* Number of transitions of a drawn state (ScanSpec).
MaxLen == 3

\* Longest internal_event_emissions list committed (CommitSpec).
MaxEvents == 2

\* TickerClock::SCALING_FACTOR = Fraction::new(1, 1_000): seconds per tick.
ScalingNumerator == 1
ScalingDenominator == 1000

Time == 0..MaxTime
KeyCodes == 0..MaxKey

VARIABLES
    table,          \* which of the repository's state tables the engine runs
    flags,          \* GlobalState.flags
    entered_state,  \* GlobalState.entered_state
    current_state,  \* GlobalState.current_state (the state's name)
    outcome,        \* how the last call ended: "init", "fired", "none", "panic"
    ret,            \* the key events the last call returned
    call,           \* the last call: [op, now, key]
    elapsed,        \* Option: the elapsed time the last call computed
    pre,            \* the engine (and history) as the last call found it
    fired_at,       \* history: `now` of the latest call that fired a transition
    last_emitted,   \* history: per keycode, the variant last emitted for it
    probe           \* the pure-function harness (EvalSpec)

engine == <<flags, entered_state, current_state>>
vars == <<table, flags, entered_state, current_state, outcome, ret, call,
          elapsed, pre, fired_at, last_emitted, probe>>

(***************************************************************************)
(* Event model                                                             *)
(***************************************************************************)
CTRL == {"CTRL"}
SHFT == {"SHFT"}
StateFlags == SUBSET (CTRL \cup SHFT)

Press(k) == [variant |-> "Press", code |-> k]
Depress(k) == [variant |-> "Depress", code |-> k]

InputEvent == {Press(k) : k \in KeyCodes} \cup {Depress(k) : k \in KeyCodes}

SetGlobalState(f) == [kind |-> "SetGlobalState", mask |-> f]
UnsetGlobalState(f) == [kind |-> "UnsetGlobalState", mask |-> f]

\* A bug: both arms remove.
InternalEvent_apply_remove_only(ev, f) ==
    f \ ev.mask

\* A bug: SetGlobalState toggles the mask's bits.
InternalEvent_apply_toggle(ev, f) ==
    IF ev.kind = "SetGlobalState"
    THEN (f \ ev.mask) \cup (ev.mask \ f)
    ELSE f \ ev.mask

\* A bug: both arms insert.
InternalEvent_apply_insert_only(ev, f) ==
    f \cup ev.mask

\* InternalEvent::apply: insert sets the mask's bits, remove clears them.
InternalEvent_apply(ev, f) ==
    IF ev.kind = "SetGlobalState" THEN f \cup ev.mask ELSE f \ ev.mask

(***************************************************************************)
(* Conditions                                                              *)
(***************************************************************************)
StateSet(m) == [kind |-> "StateSet", mask |-> m]
StateNotSet(m) == [kind |-> "StateNotSet", mask |-> m]
Pressed(lo, hi) == [kind |-> "Pressed", range |-> <<lo, hi>>]
Depressed(lo, hi) == [kind |-> "Depressed", range |-> <<lo, hi>>]
ElapsedLess(ms) == [kind |-> "ElapsedLess", ms |-> ms]
ElapsedGreater(ms) == [kind |-> "ElapsedGreater", ms |-> ms]

pressed_single(key) == Pressed(key, key)
depressed_single(key) == Depressed(key, key)

\* RangeInclusive::contains
range_contains(r, k) == r[1] <= k /\ k <= r[2]

\* A bug: the hold threshold is exclusive (> instead of >=).
TransitionCondition_evaluate_gt(c, el, key, state) ==
    CASE c.kind = "StateSet" -> c.mask \subseteq state
      [] c.kind = "StateNotSet" -> ~(c.mask \subseteq state)
      [] c.kind = "Pressed" ->
            /\ Len(key) = 1
            /\ key[1].variant = "Press"
            /\ range_contains(c.range, key[1].code)
      [] c.kind = "Depressed" ->
            /\ Len(key) = 1
            /\ key[1].variant = "Depress"
            /\ range_contains(c.range, key[1].code)
      [] c.kind = "ElapsedLess" -> el < c.ms
      [] c.kind = "ElapsedGreater" -> el > c.ms

\* A bug: the Depressed arm matches the Press variant (a copied arm).
TransitionCondition_evaluate_copied_arm(c, el, key, state) ==
    CASE c.kind = "StateSet" -> c.mask \subseteq state
      [] c.kind = "StateNotSet" -> ~(c.mask \subseteq state)
      [] c.kind = "Pressed" ->
            /\ Len(key) = 1
            /\ key[1].variant = "Press"
            /\ range_contains(c.range, key[1].code)
      [] c.kind = "Depressed" ->
            /\ Len(key) = 1
            /\ key[1].variant = "Press"
            /\ range_contains(c.range, key[1].code)
      [] c.kind = "ElapsedLess" -> el < c.ms
      [] c.kind = "ElapsedGreater" -> el >= c.ms

\* A bug: Pressed / Depressed ignore the keycode.
TransitionCondition_evaluate_any_key(c, el, key, state) ==
    CASE c.kind = "StateSet" -> c.mask \subseteq state
      [] c.kind = "StateNotSet" -> ~(c.mask \subseteq state)
      [] c.kind = "Pressed" -> Len(key) = 1 /\ key[1].variant = "Press"
      [] c.kind = "Depressed" -> Len(key) = 1 /\ key[1].variant = "Depress"
      [] c.kind = "ElapsedLess" -> el < c.ms
      [] c.kind = "ElapsedGreater" -> el >= c.ms

\* A bug: the tap threshold is inclusive (<= instead of <).
TransitionCondition_evaluate_le(c, el, key, state) ==
    CASE c.kind = "StateSet" -> c.mask \subseteq state
      [] c.kind = "StateNotSet" -> ~(c.mask \subseteq state)
      [] c.kind = "Pressed" ->
            /\ Len(key) = 1
            /\ key[1].variant = "Press"
            /\ range_contains(c.range, key[1].code)
      [] c.kind = "Depressed" ->
            /\ Len(key) = 1
            /\ key[1].variant = "Depress"
            /\ range_contains(c.range, key[1].code)
      [] c.kind = "ElapsedLess" -> el <= c.ms
      [] c.kind = "ElapsedGreater" -> el >= c.ms

\* A bug: the two flag tests are exchanged.
TransitionCondition_evaluate_flags_swapped(c, el, key, state) ==
    CASE c.kind = "StateSet" -> ~(c.mask \subseteq state)
      [] c.kind = "StateNotSet" -> c.mask \subseteq state
      [] c.kind = "Pressed" ->
            /\ Len(key) = 1
            /\ key[1].variant = "Press"
            /\ range_contains(c.range, key[1].code)
      [] c.kind = "Depressed" ->
            /\ Len(key) = 1
            /\ key[1].variant = "Depress"
            /\ range_contains(c.range, key[1].code)
      [] c.kind = "ElapsedLess" -> el < c.ms
      [] c.kind = "ElapsedGreater" -> el >= c.ms

\* A bug: the elapsed-time arms match only with no input, (.., None).
TransitionCondition_evaluate_tick_only(c, el, key, state) ==
    CASE c.kind = "StateSet" -> c.mask \subseteq state
      [] c.kind = "StateNotSet" -> ~(c.mask \subseteq state)
      [] c.kind = "Pressed" ->
            /\ Len(key) = 1
            /\ key[1].variant = "Press"
            /\ range_contains(c.range, key[1].code)
      [] c.kind = "Depressed" ->
            /\ Len(key) = 1
            /\ key[1].variant = "Depress"
            /\ range_contains(c.range, key[1].code)
      [] c.kind = "ElapsedLess" -> Len(key) = 0 /\ el < c.ms
      [] c.kind = "ElapsedGreater" -> Len(key) = 0 /\ el >= c.ms

\* A bug: the last arm is (_ => true), so Pressed / Depressed hold with None
\* and with the other variant.
TransitionCondition_evaluate_default_true(c, el, key, state) ==
    CASE c.kind = "StateSet" -> c.mask \subseteq state
      [] c.kind = "StateNotSet" -> ~(c.mask \subseteq state)
      [] c.kind = "Pressed" ->
            IF Len(key) = 1 /\ key[1].variant = "Press"
            THEN range_contains(c.range, key[1].code) ELSE TRUE
      [] c.kind = "Depressed" ->
            IF Len(key) = 1 /\ key[1].variant = "Depress"
            THEN range_contains(c.range, key[1].code) ELSE TRUE
      [] c.kind = "ElapsedLess" -> el < c.ms
      [] c.kind = "ElapsedGreater" -> el >= c.ms

\* A bug: StateNotSet tests that no bit of the mask is set (!intersects)
\* instead of that not all are (!contains).
TransitionCondition_evaluate_no_bit(c, el, key, state) ==
    CASE c.kind = "StateSet" -> c.mask \subseteq state
      [] c.kind = "StateNotSet" -> c.mask \cap state = {}
      [] c.kind = "Pressed" ->
            /\ Len(key) = 1
            /\ key[1].variant = "Press"
            /\ range_contains(c.range, key[1].code)
      [] c.kind = "Depressed" ->
            /\ Len(key) = 1
            /\ key[1].variant = "Depress"
            /\ range_contains(c.range, key[1].code)
      [] c.kind = "ElapsedLess" -> el < c.ms
      [] c.kind = "ElapsedGreater" -> el >= c.ms

\* TransitionCondition::evaluate.  The match is on (self, key); the last arm
\* (_ => false) takes Pressed / Depressed with None or with the other variant.
TransitionCondition_evaluate(c, el, key, state) ==
    CASE c.kind = "StateSet" -> c.mask \subseteq state
      [] c.kind = "StateNotSet" -> ~(c.mask \subseteq state)
      [] c.kind = "Pressed" ->
            /\ Len(key) = 1
            /\ key[1].variant = "Press"
            /\ range_contains(c.range, key[1].code)
      [] c.kind = "Depressed" ->
            /\ Len(key) = 1
            /\ key[1].variant = "Depress"
            /\ range_contains(c.range, key[1].code)
      [] c.kind = "ElapsedLess" -> el < c.ms
      [] c.kind = "ElapsedGreater" -> el >= c.ms

(***************************************************************************)
(* Transitions and states                                                  *)
(***************************************************************************)
Transition(c, k, i, t) ==
    [conditions |-> c, key_event_emissions |-> k,
     internal_event_emissions |-> i, target |-> t]

\* What DynTransition::evaluate hands back in Some(..).
Emission(t) ==
    [key_events |-> t.key_event_emissions,
     internal_events |-> t.internal_event_emissions,
     next_state |-> t.target]

\* The key events in reverse order.
Reversed(s) == [n \in 1..Len(s) |-> s[Len(s) + 1 - n]]

\* A bug: a transition without conditions never matches.
DynTransition_evaluate_nonempty(t, el, key, state) ==
    IF /\ Len(t.conditions) > 0
       /\ \A n \in 1..Len(t.conditions) :
              TransitionCondition_evaluate(t.conditions[n], el, key, state)
    THEN <<Emission(t)>>
    ELSE <<>>

\* A bug: any condition instead of all.
DynTransition_evaluate_any(t, el, key, state) ==
    IF \E n \in 1..Len(t.conditions) :
           TransitionCondition_evaluate(t.conditions[n], el, key, state)
    THEN <<Emission(t)>>
    ELSE <<>>

\* A bug: the emissions are handed back last first.
DynTransition_evaluate_reversed(t, el, key, state) ==
    IF \A n \in 1..Len(t.conditions) :
           TransitionCondition_evaluate(t.conditions[n], el, key, state)
    THEN <<[Emission(t) EXCEPT !.key_events = Reversed(t.key_event_emissions)]>>
    ELSE <<>>

\* DynTransition::evaluate: Some((key events, internal events, target)) iff
\* all conditions hold.
DynTransition_evaluate(t, el, key, state) ==
    IF \A n \in 1..Len(t.conditions) :
           TransitionCondition_evaluate(t.conditions[n], el, key, state)
    THEN <<Emission(t)>>
    ELSE <<>>

\* A bug: the scan keeps the last match instead of stopping at the first.
RECURSIVE first_match_last(_, _, _, _)
first_match_last(ts, el, key, state) ==
    IF Len(ts) = 0 THEN <<>>
    ELSE LET r == DynTransition_evaluate(ts[Len(ts)], el, key, state)
         IN  IF Len(r) = 1 THEN r
             ELSE first_match_last(SubSeq(ts, 1, Len(ts) - 1), el, key, state)

\* transitions().iter().flat_map(|t| t.evaluate(..)).next(): the result of
\* the first transition, in list order, that evaluates to Some.
RECURSIVE first_match(_, _, _, _)
first_match(ts, el, key, state) ==
    IF Len(ts) = 0 THEN <<>>
    ELSE LET r == DynTransition_evaluate(Head(ts), el, key, state)
         IN  IF Len(r) = 1 THEN r
             ELSE first_match(Tail(ts), el, key, state)

(***************************************************************************)
(* The state tables of the repository (the statics of the three tests)     *)
(***************************************************************************)
\* tests::basic
A_0 ==
    Transition(<<pressed_single(0)>>, <<Press(0)>>, <<>>, "B")

B_0 ==
    Transition(<<depressed_single(0)>>, <<Depress(0)>>, <<>>, "A")

basic_transitions(s) ==
    CASE s = "A" -> <<A_0>>
      [] s = "B" -> <<B_0>>

\* tests::mod_tap_better
better_ROOT_0 ==
    Transition(<<pressed_single(0)>>, <<>>, <<>>, "MOD")

better_ROOT_PRESS_1 ==
    Transition(<<pressed_single(1)>>, <<Press(1)>>, <<>>, "PRESS_1")

better_PRESS_1_DEPRESS ==
    Transition(<<depressed_single(1)>>, <<Depress(1)>>, <<>>, "ROOT")

better_ROOT_RESET ==
    Transition(<<StateSet(SHFT), depressed_single(0)>>, <<Depress(2)>>,
               <<UnsetGlobalState(SHFT)>>, "ROOT")

better_MOD_TAP_TRANS ==
    Transition(<<depressed_single(0), ElapsedLess(5)>>,
               <<Press(0), Depress(0)>>, <<>>, "ROOT")

better_MOD_TAP_OTHER_TRANS ==
    Transition(<<pressed_single(1)>>, <<Press(2), Press(1)>>,
               <<SetGlobalState(SHFT)>>, "PRESS_1")

better_MOD_HOLD_TRANS ==
    Transition(<<ElapsedGreater(5)>>, <<Press(2)>>,
               <<SetGlobalState(SHFT)>>, "ROOT")

mod_tap_better_transitions(s) ==
    CASE s = "ROOT" -> <<better_ROOT_0, better_ROOT_PRESS_1, better_ROOT_RESET>>
      [] s = "PRESS_1" -> <<better_PRESS_1_DEPRESS>>
      [] s = "MOD" -> <<better_MOD_TAP_TRANS, better_MOD_TAP_OTHER_TRANS,
                        better_MOD_HOLD_TRANS>>

\* tests::mod_tap
ROOT_0 ==
    Transition(<<pressed_single(0)>>, <<>>, <<>>, "MOD")

MOD_TAP_TRANS ==
    Transition(<<depressed_single(0), ElapsedLess(5)>>,
               <<Press(0), Depress(0)>>, <<>>, "ROOT")

MOD_TAP_OTHER_TRANS ==
    Transition(<<pressed_single(1)>>, <<Press(2), Press(1), Depress(1)>>,
               <<SetGlobalState(SHFT)>>, "MOD_HOLD")

MOD_HOLD_TRANS ==
    Transition(<<ElapsedGreater(5)>>, <<Press(2)>>,
               <<SetGlobalState(SHFT)>>, "MOD_HOLD")

MOD_HOLD_DEPRESS_TRANS ==
    Transition(<<depressed_single(0)>>, <<Depress(2)>>,
               <<UnsetGlobalState(SHFT)>>, "ROOT")

MOD_HOLD_OTHER_TRANS ==
    Transition(<<pressed_single(1)>>, <<Press(1), Depress(1)>>, <<>>,
               "MOD_HOLD")

mod_tap_transitions(s) ==
    CASE s = "ROOT" -> <<ROOT_0>>
      [] s = "MOD" -> <<MOD_TAP_TRANS, MOD_TAP_OTHER_TRANS, MOD_HOLD_TRANS>>
      [] s = "MOD_HOLD" -> <<MOD_HOLD_DEPRESS_TRANS, MOD_HOLD_OTHER_TRANS>>

Tables == {"basic", "mod_tap_better", "mod_tap"}

\* DynState::transitions of state s of table tb.
transitions(tb, s) ==
    CASE tb = "basic" -> basic_transitions(s)
      [] tb = "mod_tap_better" -> mod_tap_better_transitions(s)
      [] tb = "mod_tap" -> mod_tap_transitions(s)
      [] tb = "drawn" -> probe.ts

\* The current_state each test constructs its GlobalState with.
initial_state(tb) == IF tb = "basic" THEN "A" ELSE "ROOT"

(***************************************************************************)
(* The engine                                                              *)
(***************************************************************************)
\* A bug: a regressed clock yields the distance instead of None.
checked_duration_since_abs(current_time, other) ==
    IF current_time >= other THEN <<current_time - other>>
    ELSE <<other - current_time>>

\* Instant::checked_duration_since: None when current_time is earlier than
\* other, else the ticks between them.
checked_duration_since(current_time, other) ==
    IF current_time >= other THEN <<current_time - other>> ELSE <<>>

\* Generic<u32> -> Milliseconds<u32> (try_into): ticks of SCALING_FACTOR
\* seconds each, in milliseconds.
try_into_milliseconds(ticks) ==
    <<(ticks * ScalingNumerator * 1000) \div ScalingDenominator>>

\* A bug: the events are applied last first.
RECURSIVE apply_all_backwards(_, _)
apply_all_backwards(internal_events, f) ==
    IF Len(internal_events) = 0 THEN f
    ELSE apply_all_backwards(
             SubSeq(internal_events, 1, Len(internal_events) - 1),
             InternalEvent_apply(internal_events[Len(internal_events)], f))

\* for event in internal_events { event.apply(self) }
RECURSIVE apply_all(_, _)
apply_all(internal_events, f) ==
    IF Len(internal_events) = 0 THEN f
    ELSE apply_all(Tail(internal_events),
                   InternalEvent_apply(Head(internal_events), f))

\* A bug: a transition without internal events resets the flags.
do_transition_reset_flags(internal_events, next_state, current_time) ==
    /\ flags' = IF Len(internal_events) = 0 THEN {}
                ELSE apply_all(internal_events, flags)
    /\ current_state' = next_state
    /\ entered_state' = current_time

\* A bug: the clock restarts only when the state changes.
do_transition_keep_clock(internal_events, next_state, current_time) ==
    /\ flags' = apply_all(internal_events, flags)
    /\ current_state' = next_state
    /\ entered_state' = IF next_state = current_state THEN entered_state
                        ELSE current_time

\* GlobalState::do_transition
do_transition(internal_events, next_state, current_time) ==
    /\ flags' = apply_all(internal_events, flags)
    /\ current_state' = next_state
    /\ entered_state' = current_time

\* The variant last emitted for each keycode once the events of s are out.
RECURSIVE emit(_, _)
emit(s, le) ==
    IF Len(s) = 0 THEN le
    ELSE emit(Tail(s), [le EXCEPT ![Head(s).code] = Head(s).variant])

\* What both entry points record of a call besides the engine's own fields.
Record(op, current_time, key, el, how, events) ==
    /\ call' = [op |-> op, now |-> current_time, key |-> key]
    /\ pre' = [flags |-> flags, entered_state |-> entered_state,
               current_state |-> current_state, fired_at |-> fired_at,
               last_emitted |-> last_emitted]
    /\ elapsed' = el
    /\ outcome' = how
    /\ ret' = events
    /\ fired_at' = IF how = "fired" THEN current_time ELSE fired_at
    /\ last_emitted' = emit(events, last_emitted)
    /\ UNCHANGED <<table, probe>>

\* A bug: after the commit the target state's transitions are evaluated too,
\* in the same call (same input, elapsed 0), and a match is committed.
evaluate_call_chained(op, current_time, key) ==
    LET since == checked_duration_since(current_time, entered_state)
        ms == IF Len(since) = 1 THEN try_into_milliseconds(since[1]) ELSE <<>>
    IN  IF Len(ms) = 0
        THEN /\ UNCHANGED engine
             /\ Record(op, current_time, key, <<>>, "panic", <<>>)
        ELSE LET m == first_match(transitions(table, current_state),
                                  ms[1], key, flags)
             IN  IF Len(m) = 1
                 THEN LET f1 == apply_all(m[1].internal_events, flags)
                          m2 == first_match(
                                    transitions(table, m[1].next_state),
                                    0, key, f1)
                      IN  IF Len(m2) = 1
                          THEN /\ flags' = apply_all(m2[1].internal_events, f1)
                               /\ current_state' = m2[1].next_state
                               /\ entered_state' = current_time
                               /\ Record(op, current_time, key, ms, "fired",
                                         m[1].key_events \o m2[1].key_events)
                          ELSE /\ do_transition(m[1].internal_events,
                                                m[1].next_state, current_time)
                               /\ Record(op, current_time, key, ms, "fired",
                                         m[1].key_events)
                 ELSE /\ UNCHANGED engine
                      /\ Record(op, current_time, key, ms, "none", <<>>)

\* The body tick and push share: elapsed time (both unwraps panic on None),
\* the first matching transition, its commit, its key events.
evaluate_call(op, current_time, key) ==
    LET since == checked_duration_since(current_time, entered_state)
        ms == IF Len(since) = 1 THEN try_into_milliseconds(since[1]) ELSE <<>>
    IN  IF Len(ms) = 0
        THEN /\ UNCHANGED engine
             /\ Record(op, current_time, key, <<>>, "panic", <<>>)
        ELSE LET m == first_match(transitions(table, current_state),
                                  ms[1], key, flags)
             IN  IF Len(m) = 1
                 THEN /\ do_transition(m[1].internal_events, m[1].next_state,
                                       current_time)
                      /\ Record(op, current_time, key, ms, "fired",
                                m[1].key_events)
                 ELSE /\ UNCHANGED engine
                      /\ Record(op, current_time, key, ms, "none", <<>>)

\* GlobalState::tick
tick(current_time) ==
    /\ outcome # "panic"
    /\ evaluate_call("tick", current_time, <<>>)

\* GlobalState::push
push(current_time, event) ==
    /\ outcome # "panic"
    /\ evaluate_call("push", current_time, <<event>>)

NoProbe == [pc |-> "off"]

Init ==
    /\ table \in Tables
    /\ flags = {}
    /\ entered_state = 0
    /\ current_state = initial_state(table)
    /\ outcome = "init"
    /\ ret = <<>>
    /\ call = [op |-> "none", now |-> 0, key |-> <<>>]
    /\ elapsed = <<>>
    /\ pre = [flags |-> {}, entered_state |-> 0,
              current_state |-> initial_state(table), fired_at |-> 0,
              last_emitted |-> [k \in KeyCodes |-> "None"]]
    /\ fired_at = 0
    /\ last_emitted = [k \in KeyCodes |-> "None"]
    /\ probe = NoProbe

Tick == \E now \in Time : tick(now)

Push == \E now \in Time : \E event \in InputEvent : push(now, event)

Next == Tick \/ Push

Spec == Init /\ [][Next]_vars

(***************************************************************************)
(* The engine on a drawn table: one state S whose MaxLen transitions take  *)
(* their condition lists from ConditionMenu, constructed with any flags,   *)
(* and called once (tick or push, any clock reading and event).            *)
(***************************************************************************)
ConditionMenu ==
    << <<>>,
       <<Pressed(0, 1)>>,
       <<Depressed(1, 2), ElapsedLess(3)>>,
       <<ElapsedGreater(3)>>,
       <<ElapsedLess(3), StateNotSet(SHFT)>>,
       <<StateSet(CTRL \cup SHFT)>> >>

\* The key event that tells the n-th transition of a drawn state from the
\* others: Press(0), Depress(0), Press(1), Depress(1), ...
marker(n) ==
    IF n % 2 = 1 THEN Press((n - 1) \div 2) ELSE Depress((n - 2) \div 2)

drawn_state(choice) ==
    [n \in 1..MaxLen |->
        Transition(ConditionMenu[choice[n]], <<marker(n)>>, <<>>, "S")]

ScanInit ==
    /\ table = "drawn"
    /\ flags \in StateFlags
    /\ entered_state = 0
    /\ current_state = "S"
    /\ outcome = "init"
    /\ ret = <<>>
    /\ call = [op |-> "none", now |-> 0, key |-> <<>>]
    /\ elapsed = <<>>
    /\ pre = [flags |-> flags, entered_state |-> 0, current_state |-> "S",
              fired_at |-> 0, last_emitted |-> [k \in KeyCodes |-> "None"]]
    /\ fired_at = 0
    /\ last_emitted = [k \in KeyCodes |-> "None"]
    /\ \E choice \in [1..MaxLen -> 1..Len(ConditionMenu)] :
           probe = [pc |-> "table", ts |-> drawn_state(choice)]

ScanTick == outcome = "init" /\ Tick

ScanPush == outcome = "init" /\ Push

ScanNext == ScanTick \/ ScanPush

ScanSpec == ScanInit /\ [][ScanNext]_vars

(***************************************************************************)
(* The commit on its own: an engine constructed with any flags commits one *)
(* drawn transition (internal events, target, clock reading).              *)
(***************************************************************************)
InternalEvent ==
    {SetGlobalState(m) : m \in StateFlags}
        \cup {UnsetGlobalState(m) : m \in StateFlags}

InternalEventLists ==
    UNION {[1..n -> InternalEvent] : n \in 0..MaxEvents}

CommitInit ==
    /\ table = "basic"
    /\ flags \in StateFlags
    /\ entered_state = 0
    /\ current_state = initial_state(table)
    /\ outcome = "init"
    /\ ret = <<>>
    /\ call = [op |-> "none", now |-> 0, key |-> <<>>]
    /\ elapsed = <<>>
    /\ pre = [flags |-> flags, entered_state |-> 0,
              current_state |-> initial_state(table), fired_at |-> 0,
              last_emitted |-> [k \in KeyCodes |-> "None"]]
    /\ fired_at = 0
    /\ last_emitted = [k \in KeyCodes |-> "None"]
    /\ \E evs \in InternalEventLists : \E s \in {"A", "B"} : \E now \in Time :
           probe = [pc |-> "ready", internal_events |-> evs,
                    next_state |-> s, current_time |-> now]

\* GlobalState::do_transition on the drawn transition.
commit ==
    /\ probe.pc = "ready"
    /\ do_transition(probe.internal_events, probe.next_state,
                     probe.current_time)
    /\ probe' = [probe EXCEPT !.pc = "done"]
    /\ UNCHANGED <<table, outcome, ret, call, elapsed, pre, fired_at,
                   last_emitted>>

CommitNext == commit

CommitSpec == CommitInit /\ [][CommitNext]_vars

(***************************************************************************)
(* Successive transitions of one internal event each, on an engine         *)
(* constructed with any flags.                                             *)
(***************************************************************************)
ApplyInit ==
    /\ table = "basic"
    /\ flags \in StateFlags
    /\ entered_state = 0
    /\ current_state = initial_state(table)
    /\ outcome = "init"
    /\ ret = <<>>
    /\ call = [op |-> "none", now |-> 0, key |-> <<>>]
    /\ elapsed = <<>>
    /\ pre = [flags |-> flags, entered_state |-> 0,
              current_state |-> initial_state(table), fired_at |-> 0,
              last_emitted |-> [k \in KeyCodes |-> "None"]]
    /\ fired_at = 0
    /\ last_emitted = [k \in KeyCodes |-> "None"]
    /\ probe = [pc |-> "start", event |-> <<>>, before |-> flags,
                previous |-> <<>>]

\* GlobalState::do_transition with the single internal event ev (a
\* self-loop at the entry time); the probe keeps this event, the flags
\* before it and the event of the transition before.
apply_event(ev) ==
    /\ do_transition(<<ev>>, current_state, entered_state)
    /\ probe' = [pc |-> "applied", event |-> <<ev>>, before |-> flags,
                 previous |-> probe.event]
    /\ UNCHANGED <<table, outcome, ret, call, elapsed, pre, fired_at,
                   last_emitted>>

ApplyNext == \E ev \in InternalEvent : apply_event(ev)

ApplySpec == ApplyInit /\ [][ApplyNext]_vars

(***************************************************************************)
(* The pure-function harness: the inputs are drawn in the initial state    *)
(* and one step evaluates every kind of condition on them.                 *)
(***************************************************************************)
ProbeInputs ==
    [ms : Time, el : Time, key : {<<>>} \cup {<<e>> : e \in InputEvent},
     state : StateFlags, mask : StateFlags, lo : KeyCodes, hi : KeyCodes]

EvalInit ==
    /\ table = "basic"
    /\ flags = {}
    /\ entered_state = 0
    /\ current_state = initial_state(table)
    /\ outcome = "init"
    /\ ret = <<>>
    /\ call = [op |-> "none", now |-> 0, key |-> <<>>]
    /\ elapsed = <<>>
    /\ pre = [flags |-> {}, entered_state |-> 0,
              current_state |-> initial_state(table), fired_at |-> 0,
              last_emitted |-> [k \in KeyCodes |-> "None"]]
    /\ fired_at = 0
    /\ last_emitted = [k \in KeyCodes |-> "None"]
    /\ \E i \in ProbeInputs : probe = [pc |-> "ready", in |-> i]

\* TransitionCondition::evaluate applied to a condition of each kind.
evaluate_conditions ==
    /\ probe.pc = "ready"
    /\ LET i == probe.in
           ev(c) == TransitionCondition_evaluate(c, i.el, i.key, i.state)
       IN  probe' = [pc |-> "done", in |-> i,
                     out |-> [StateSet |-> ev(StateSet(i.mask)),
                              StateNotSet |-> ev(StateNotSet(i.mask)),
                              Pressed |-> ev(Pressed(i.lo, i.hi)),
                              Depressed |-> ev(Depressed(i.lo, i.hi)),
                              ElapsedLess |-> ev(ElapsedLess(i.ms)),
                              ElapsedGreater |-> ev(ElapsedGreater(i.ms))]]
    /\ UNCHANGED <<table, flags, entered_state, current_state, outcome, ret,
                   call, elapsed, pre, fired_at, last_emitted>>

EvalNext == evaluate_conditions

EvalSpec == EvalInit /\ [][EvalNext]_vars

(***************************************************************************)
(* Vocabulary of the properties: the last call as the engine found it.     *)
(***************************************************************************)
Called == call.op # "none"

\* The call's clock reading is not earlier than the state's entry.
ClockOk == Called /\ call.now >= pre.entered_state

PreElapsed == call.now - pre.entered_state

PreTransitions == transitions(table, pre.current_state)

\* Transition n of the state the call found has all its conditions true.
Holds(n) ==
    \A c \in 1..Len(PreTransitions[n].conditions) :
        TransitionCondition_evaluate(PreTransitions[n].conditions[c],
                                     PreElapsed, call.key, pre.flags)

\* n is the lowest index of a transition whose conditions are all true.
Lowest(n) ==
    /\ n \in 1..Len(PreTransitions)
    /\ Holds(n)
    /\ \A k \in 1..(n - 1) : ~Holds(k)

EngineUntouched ==
    /\ flags = pre.flags
    /\ entered_state = pre.entered_state
    /\ current_state = pre.current_state

(***************************************************************************)
(* Properties                                                              *)
(***************************************************************************)
\* C1: first-match priority.  When two transitions of the state the call
\* found both have all their conditions true, the call fires the one of
\* lowest index: the returned key events, the flags after its internal
\* events and the new current_state are that transition's, whatever the
\* later one would emit, apply or target.
C1_FirstMatchPriority ==
    ClockOk =>
        \A i, j \in 1..Len(PreTransitions) :
            (i < j /\ Lowest(i) /\ Holds(j)) =>
                /\ outcome = "fired"
                /\ ret = PreTransitions[i].key_event_emissions
                /\ flags = apply_all(PreTransitions[i].internal_event_emissions,
                                     pre.flags)
                /\ current_state = PreTransitions[i].target

\* Two transitions matched a call, and the later one has other key events
\* and another target than what the call returned and moved to.
C1_Witness ==
    /\ ClockOk
    /\ outcome = "fired"
    /\ \E i, j \in 1..Len(PreTransitions) :
           /\ i < j /\ Lowest(i) /\ Holds(j)
           /\ PreTransitions[j].key_event_emissions # ret
           /\ PreTransitions[j].target # current_state

\* C2: no-match is a no-op.  A call with now >= entered_state in which no
\* transition of the current state has all its conditions true leaves
\* current_state, flags and entered_state as they were, returns no key
\* event, and ends normally (no panic).
C2_NoMatchNoOp ==
    (ClockOk /\ \A n \in 1..Len(PreTransitions) : ~Holds(n)) =>
        /\ EngineUntouched
        /\ ret = <<>>
        /\ outcome = "none"

\* A push found no matching transition although time had passed in a state
\* with a timed transition.
C2_Witness ==
    /\ ClockOk
    /\ call.op = "push"
    /\ pre.current_state = "MOD"
    /\ PreElapsed > 0
    /\ \A n \in 1..Len(PreTransitions) : ~Holds(n)
    /\ outcome = "none"

\* C3: entered_state is the `now` of the latest call that fired a transition
\* (the construction timestamp before any): a call that fires sets it to its
\* now, any other call keeps it; so a call at that same now computes
\* elapsed = 0, self-loops included.
C3_EnteredState ==
    /\ entered_state = fired_at
    /\ (ClockOk /\ \E n \in 1..Len(PreTransitions) : Holds(n))
           => entered_state = call.now
    /\ (Called /\ ~(ClockOk /\ \E n \in 1..Len(PreTransitions) : Holds(n)))
           => entered_state = pre.entered_state
    /\ (Called /\ call.now = pre.fired_at) => elapsed = <<0>>

\* A self-loop fired in a call made at the now of the previous transition:
\* the call computed elapsed = 0, and entered_state is that now again.
C3_Witness ==
    /\ outcome = "fired"
    /\ current_state = pre.current_state
    /\ call.now = pre.fired_at
    /\ call.now > 0
    /\ elapsed = <<0>>
    /\ entered_state = call.now

\* The call took the hold-timeout transition MOD_HOLD_TRANS of the mod_tap
\* table out of MOD (the only transition from MOD to MOD_HOLD that returns
\* exactly [Press(2)]).
TookModHoldTrans ==
    /\ table = "mod_tap"
    /\ Called
    /\ pre.current_state = "MOD"
    /\ outcome = "fired"
    /\ ret = MOD_HOLD_TRANS.key_event_emissions
    /\ current_state = "MOD_HOLD"

\* C4 as stated: every step that takes MOD_HOLD_TRANS out of MOD is a tick,
\* never a push.
C4_HoldOnlyByTick ==
    TookModHoldTrans => call.op = "tick"

\* C4, amended: in MOD of the mod_tap table a tick at elapsed >= 5 ms reaches
\* MOD_HOLD, returning exactly [Press(2)] and setting SHFT, and a tick before
\* 5 ms does nothing; MOD_HOLD_TRANS is taken only at elapsed >= 5 ms, by a
\* tick or by a push whose event is not Press(1), and every such push takes
\* it.
C4_HoldByTickOrLatePush ==
    (table = "mod_tap" /\ ClockOk /\ pre.current_state = "MOD") =>
        /\ (call.op = "tick" /\ PreElapsed >= 5) =>
               /\ ret = <<Press(2)>>
               /\ current_state = "MOD_HOLD"
               /\ flags = pre.flags \cup SHFT
        /\ (call.op = "tick" /\ PreElapsed < 5) =>
               /\ ret = <<>>
               /\ EngineUntouched
        /\ TookModHoldTrans <=>
               /\ PreElapsed >= 5
               /\ call.key # <<Press(1)>>

\* Key 0 was held in MOD for exactly 5 ms and a tick reached MOD_HOLD.
C4_Witness ==
    /\ TookModHoldTrans
    /\ call.op = "tick"
    /\ PreElapsed = 5
    /\ flags = SHFT

\* C5: tap side of the mod_tap table.  In MOD, push(now, Depress(0)) with
\* elapsed < 5 ms returns exactly [Press(0), Depress(0)], leaves the engine
\* in ROOT with the flags unchanged and SHFT clear, and emits nothing for
\* key 2.
C5_TapSide ==
    ( /\ table = "mod_tap"
      /\ ClockOk
      /\ pre.current_state = "MOD"
      /\ call = [op |-> "push", now |-> call.now, key |-> <<Depress(0)>>]
      /\ PreElapsed < 5 ) =>
        /\ ret = <<Press(0), Depress(0)>>
        /\ current_state = "ROOT"
        /\ flags = pre.flags
        /\ ~(SHFT \subseteq flags)
        /\ \A n \in 1..Len(ret) : ret[n].code # 2

\* Key 0 was released 4 ms after MOD was entered: a tap.
C5_Witness ==
    /\ table = "mod_tap"
    /\ pre.current_state = "MOD"
    /\ call.op = "push"
    /\ call.key = <<Depress(0)>>
    /\ PreElapsed = 4
    /\ ret = <<Press(0), Depress(0)>>
    /\ current_state = "ROOT"

\* C6: hold release of the mod_tap table.  In MOD_HOLD, push(now,
\* Depress(0)) at any elapsed time returns exactly [Depress(2)], leaves the
\* engine in ROOT, and the flag set is empty afterwards.
C6_HoldRelease ==
    ( /\ table = "mod_tap"
      /\ ClockOk
      /\ pre.current_state = "MOD_HOLD"
      /\ call.op = "push"
      /\ call.key = <<Depress(0)>> ) =>
        /\ ret = <<Depress(2)>>
        /\ current_state = "ROOT"
        /\ flags = {}

\* Key 0 was released in MOD_HOLD with SHFT set, some time after the entry.
C6_Witness ==
    /\ table = "mod_tap"
    /\ pre.current_state = "MOD_HOLD"
    /\ SHFT \subseteq pre.flags
    /\ call.op = "push"
    /\ call.key = <<Depress(0)>>
    /\ PreElapsed > 0
    /\ ret = <<Depress(2)>>
    /\ flags = {}

\* C7: simple tap (the A/B table of test basic).  push(Press(0)) in A
\* returns [Press(0)] and moves to B, push(Depress(0)) in B returns
\* [Depress(0)] and moves to A, every other call is a no-op; so the key
\* events returned over any run alternate Press(0), Depress(0), starting
\* with Press(0), and no other key is ever emitted.
C7_SimpleTap ==
    (table = "basic" /\ ClockOk) =>
        /\ IF pre.current_state = "A" /\ call.key = <<Press(0)>>
           THEN ret = <<Press(0)>> /\ current_state = "B"
           ELSE IF pre.current_state = "B" /\ call.key = <<Depress(0)>>
           THEN ret = <<Depress(0)>> /\ current_state = "A"
           ELSE ret = <<>> /\ EngineUntouched
        /\ flags = pre.flags
        /\ ret = <<Press(0)>> => pre.last_emitted[0] \in {"None", "Depress"}
        /\ ret = <<Depress(0)>> => pre.last_emitted[0] = "Press"
        /\ \A k \in KeyCodes \ {0} : last_emitted[k] = "None"

\* A second Press(0) was returned, after a Depress(0), with every call so
\* far at the construction timestamp.
C7_Witness ==
    /\ table = "basic"
    /\ pre.last_emitted[0] = "Depress"
    /\ ret = <<Press(0)>>
    /\ call.now = 0
    /\ entered_state = 0
    /\ current_state = "B"

\* C8: output order.  The key events a call returns when a transition fires
\* are that transition's key_event_emissions, as many and element for
\* element in list order; a call in which none fires returns none.
C8_OutputOrder ==
    ClockOk =>
        /\ \A i \in 1..Len(PreTransitions) :
               Lowest(i) =>
                   /\ Len(ret) = Len(PreTransitions[i].key_event_emissions)
                   /\ \A n \in 1..Len(ret) :
                          ret[n] = PreTransitions[i].key_event_emissions[n]
        /\ Len(ret) > 0 => \E i \in 1..Len(PreTransitions) : Lowest(i)

\* MOD_TAP_OTHER_TRANS of the mod_tap table fired and its three key events
\* came back in list order.
C8_Witness ==
    /\ table = "mod_tap"
    /\ pre.current_state = "MOD"
    /\ Lowest(2)
    /\ ret = <<Press(2), Press(1), Depress(1)>>

\* C9: clock misuse.  A call whose now is earlier than entered_state panics:
\* no elapsed time is computed, no key event is returned, and
\* current_state, flags and entered_state are as before the call.
C9_ClockMisuse ==
    (Called /\ call.now < pre.entered_state) =>
        /\ outcome = "panic"
        /\ elapsed = <<>>
        /\ ret = <<>>
        /\ EngineUntouched

\* A push of Depress(0) in MOD with a regressed clock, where the tap
\* transition would match a small elapsed time: the call panicked.
C9_Witness ==
    /\ pre.current_state = "MOD"
    /\ call.key = <<Depress(0)>>
    /\ call.now < pre.entered_state
    /\ outcome = "panic"

\* C10: boundary partition.  For every threshold and every elapsed value
\* exactly one of ElapsedLess and ElapsedGreater of that threshold is true,
\* and at elapsed = threshold it is ElapsedGreater.
C10_BoundaryPartition ==
    probe.pc = "done" =>
        /\ probe.out.ElapsedLess # probe.out.ElapsedGreater
        /\ probe.in.el = probe.in.ms =>
               (probe.out.ElapsedGreater /\ ~probe.out.ElapsedLess)
        /\ probe.in.el < probe.in.ms =>
               (probe.out.ElapsedLess /\ ~probe.out.ElapsedGreater)

\* Both conditions were evaluated at elapsed = threshold = 5 ms.
C10_Witness ==
    /\ probe.pc = "done"
    /\ probe.in.el = 5
    /\ probe.in.ms = 5
    /\ probe.out.ElapsedGreater
    /\ ~probe.out.ElapsedLess

\* The call's input is Some(variant(k)) with k in the inclusive range r.
InputIn(variant, r) ==
    /\ Len(call.key) = 1
    /\ call.key[1].variant = variant
    /\ r[1] <= call.key[1].code
    /\ call.key[1].code <= r[2]

\* Transition n of the state the call found lists a Pressed or Depressed
\* condition.
ListsKeyCondition(n) ==
    \E c \in 1..Len(PreTransitions[n].conditions) :
        PreTransitions[n].conditions[c].kind \in {"Pressed", "Depressed"}

\* The call fired transition n of the state it found (in a drawn state the
\* key events tell the transitions apart).
FiredDrawn(n) ==
    outcome = "fired" /\ ret = <<marker(n)>>

\* C11: Pressed(range) / Depressed(range) is true exactly when the input is
\* Some(Press(k)) / Some(Depress(k)) with k inside the inclusive range, and
\* false with None, with the other variant and with k outside the range; so
\* a transition that lists a Pressed or Depressed condition never fires on
\* a tick, whatever the elapsed time and the flags.
C11_KeyConditions ==
    (table = "drawn" /\ ClockOk) =>
        \A n \in 1..Len(PreTransitions) :
            /\ \A c \in 1..Len(PreTransitions[n].conditions) :
                   LET cond == PreTransitions[n].conditions[c]
                       val == TransitionCondition_evaluate(
                                  cond, PreElapsed, call.key, pre.flags)
                   IN  /\ cond.kind = "Pressed" =>
                              (val <=> InputIn("Press", cond.range))
                       /\ cond.kind = "Depressed" =>
                              (val <=> InputIn("Depress", cond.range))
            /\ (call.op = "tick" /\ ListsKeyCondition(n)) => ~FiredDrawn(n)

\* A tick found, first in the state, the transition that needs Depressed
\* and elapsed < 3 ms, before 3 ms had passed, with no other transition to
\* fire: nothing fired.
C11_Witness ==
    /\ table = "drawn"
    /\ call.op = "tick"
    /\ PreElapsed < 3
    /\ Len(PreTransitions[1].conditions) = 2
    /\ PreTransitions[1].conditions[1].kind = "Depressed"
    /\ \A n \in 1..Len(PreTransitions) : ListsKeyCondition(n)
    /\ outcome = "none"

\* A transition whose conditions are an elapsed-time test and a flag test
\* on the probe's threshold and mask.
TimedTransition(first, second) ==
    Transition(<<first, second>>, <<Press(2)>>, <<SetGlobalState(SHFT)>>,
               "MOD_HOLD")

\* C12: the elapsed-time conditions ignore the input.  For every threshold,
\* elapsed value and flag set ElapsedLess is elapsed < threshold and
\* ElapsedGreater is elapsed >= threshold with None and with every
\* Some(Press(k)) / Some(Depress(k)) alike; so a transition whose conditions
\* are elapsed-time and flag tests evaluates with any input as it does with
\* None (on push as on tick).
C12_ElapsedIgnoresInput ==
    probe.pc = "done" =>
        LET i == probe.in
            less == TimedTransition(ElapsedLess(i.ms), StateNotSet(i.mask))
            greater == TimedTransition(ElapsedGreater(i.ms), StateSet(i.mask))
        IN  /\ probe.out.ElapsedLess = (i.el < i.ms)
            /\ probe.out.ElapsedGreater = (i.el >= i.ms)
            /\ probe.out.ElapsedLess =
                   TransitionCondition_evaluate(ElapsedLess(i.ms), i.el,
                                                <<>>, i.state)
            /\ probe.out.ElapsedGreater =
                   TransitionCondition_evaluate(ElapsedGreater(i.ms), i.el,
                                                <<>>, i.state)
            /\ DynTransition_evaluate(less, i.el, i.key, i.state)
                   = DynTransition_evaluate(less, i.el, <<>>, i.state)
            /\ DynTransition_evaluate(greater, i.el, i.key, i.state)
                   = DynTransition_evaluate(greater, i.el, <<>>, i.state)

\* ElapsedGreater(5) was true and ElapsedLess(5) false with the input
\* Some(Depress(0)), 6 ms after the entry.
C12_Witness ==
    /\ probe.pc = "done"
    /\ probe.in.key = <<Depress(0)>>
    /\ probe.in.ms = 5
    /\ probe.in.el = 6
    /\ probe.out.ElapsedGreater
    /\ ~probe.out.ElapsedLess

\* The flag set after the events evs on the flag set f, bit by bit: a bit no
\* mask of evs holds is as in f, any other bit is set iff the last event
\* whose mask holds it is a SetGlobalState.
FlagsAfter(evs, f) ==
    {b \in CTRL \cup SHFT :
        LET touching == {n \in 1..Len(evs) : b \in evs[n].mask}
        IN  IF touching = {} THEN b \in f
            ELSE LET last == CHOOSE n \in touching :
                                 \A k \in touching : k <= n
                 IN  evs[last].kind = "SetGlobalState"}

\* C13: the commit applies the internal events to the flag set one by one in
\* listed order: Set inserts the mask's bits, Unset clears them, the last
\* listed event that touches a bit decides it ([Set(SHFT), Unset(SHFT)]
\* leaves SHFT clear, [Unset(SHFT), Set(SHFT)] leaves it set), and bits
\* outside every mask are unchanged; the commit then has current_state the
\* target and entered_state the call's now.
C13_CommitInOrder ==
    probe.pc = "done" =>
        /\ flags = FlagsAfter(probe.internal_events, pre.flags)
        /\ probe.internal_events
               = <<SetGlobalState(SHFT), UnsetGlobalState(SHFT)>>
               => flags = pre.flags \ SHFT
        /\ probe.internal_events
               = <<UnsetGlobalState(SHFT), SetGlobalState(SHFT)>>
               => flags = pre.flags \cup SHFT
        /\ current_state = probe.next_state
        /\ entered_state = probe.current_time

\* [Set(SHFT), Unset(SHFT)] was committed on the flags {CTRL}: SHFT is
\* clear and CTRL still set.
C13_Witness ==
    /\ probe.pc = "done"
    /\ probe.internal_events
           = <<SetGlobalState(SHFT), UnsetGlobalState(SHFT)>>
    /\ pre.flags = CTRL
    /\ flags = CTRL
    /\ current_state = "B"
    /\ entered_state = 4

\* C14: flags change only through internal events.  Across a tick or push
\* the flags are those before the call with the Set / Unset events of the
\* transition that fired applied; a call that fires a transition without
\* internal events, and a call in which nothing fires (a panicking one
\* included), leave the flags exactly as they were.
C14_FlagsOnlyByEvents ==
    Called =>
        /\ ClockOk =>
               \A i \in 1..Len(PreTransitions) :
                   Lowest(i) =>
                       /\ flags = FlagsAfter(
                              PreTransitions[i].internal_event_emissions,
                              pre.flags)
                       /\ Len(PreTransitions[i].internal_event_emissions) = 0
                              => flags = pre.flags
        /\ ~(ClockOk /\ \E i \in 1..Len(PreTransitions) : Lowest(i))
               => flags = pre.flags

\* With SHFT set, a transition without internal events fired (ROOT_PRESS_1
\* of the mod_tap_better table): SHFT is still set.
C14_Witness ==
    /\ table = "mod_tap_better"
    /\ pre.flags = SHFT
    /\ outcome = "fired"
    /\ \E i \in 1..Len(PreTransitions) :
           Lowest(i) /\ Len(PreTransitions[i].internal_event_emissions) = 0
    /\ current_state = "PRESS_1"
    /\ flags = SHFT

\* C15: flag idempotence.  A second SetGlobalState(m) right after a first
\* (two successive transitions) leaves the flags as the first left them, so
\* twice is as once; SetGlobalState(m) on flags that hold m, and
\* UnsetGlobalState(m) on flags with the bits of m clear, change nothing.
C15_FlagIdempotence ==
    probe.pc = "applied" =>
        LET ev == probe.event[1]
        IN  /\ (ev.kind = "SetGlobalState" /\ probe.previous = probe.event)
                   => flags = probe.before
            /\ (ev.kind = "SetGlobalState" /\ ev.mask \subseteq probe.before)
                   => flags = probe.before
            /\ (ev.kind = "UnsetGlobalState"
                    /\ ev.mask \cap probe.before = {})
                   => flags = probe.before
            /\ (ev.kind = "UnsetGlobalState" /\ probe.previous = probe.event)
                   => flags = probe.before

\* SetGlobalState(SHFT) was applied by two transitions in a row, on flags
\* that held CTRL: SHFT and CTRL are set, as after the first.
C15_Witness ==
    /\ probe.pc = "applied"
    /\ probe.event = <<SetGlobalState(SHFT)>>
    /\ probe.previous = probe.event
    /\ probe.before = CTRL \cup SHFT
    /\ flags = CTRL \cup SHFT

\* C17: a transition with an empty condition list matches on every tick and
\* every push, whatever the elapsed time, the input and the flags; with it
\* at index i of the state's list, every call fires a transition of index
\* at most i (index i itself when none before it matches) and no transition
\* after it fires.
C17_EmptyConditionsStarve ==
    (table = "drawn" /\ ClockOk) =>
        \A i \in 1..Len(PreTransitions) :
            Len(PreTransitions[i].conditions) = 0 =>
                /\ Len(DynTransition_evaluate(PreTransitions[i], PreElapsed,
                                              call.key, pre.flags)) = 1
                /\ outcome = "fired"
                /\ \E k \in 1..i : FiredDrawn(k)
                /\ \A j \in (i + 1)..Len(PreTransitions) : ~FiredDrawn(j)
                /\ (\A k \in 1..(i - 1) : ~Holds(k)) => FiredDrawn(i)

\* The transition without conditions sits second, after one whose
\* conditions do not hold, and the third one's conditions (it has some)
\* hold: the second fired.
C17_Witness ==
    /\ table = "drawn"
    /\ Called
    /\ Len(PreTransitions[1].conditions) > 0
    /\ ~Holds(1)
    /\ Len(PreTransitions[2].conditions) = 0
    /\ Len(PreTransitions[3].conditions) > 0
    /\ Holds(3)
    /\ FiredDrawn(2)

\* C18: flag-gated release of the mod_tap_better table.  In ROOT,
\* push(now, Depress(0)) returns [Depress(2)], clears SHFT and stays in ROOT
\* exactly when SHFT was set before the call, and the flag set is then
\* empty; with SHFT clear the call changes nothing and returns nothing.
C18_FlagGatedRelease ==
    ( /\ table = "mod_tap_better"
      /\ ClockOk
      /\ pre.current_state = "ROOT"
      /\ call.op = "push"
      /\ call.key = <<Depress(0)>> ) =>
        IF SHFT \subseteq pre.flags
        THEN /\ outcome = "fired"
             /\ ret = <<Depress(2)>>
             /\ flags = pre.flags \ SHFT
             /\ flags = {}
             /\ current_state = "ROOT"
        ELSE /\ outcome = "none"
             /\ ret = <<>>
             /\ EngineUntouched

\* Key 0 was released in ROOT with SHFT set: Depress(2) came back and the
\* flags are empty.
C18_Witness ==
    /\ table = "mod_tap_better"
    /\ pre.current_state = "ROOT"
    /\ pre.flags = SHFT
    /\ call.op = "push"
    /\ call.key = <<Depress(0)>>
    /\ ret = <<Depress(2)>>
    /\ flags = {}
    /\ current_state = "ROOT"

\* Were the state that transition i leads to evaluated in the same call
\* (same input, elapsed 0, the flags as transition i leaves them), one of
\* its transitions would have all its conditions true.
WouldChain(i) ==
    LET t == PreTransitions[i]
        after == FlagsAfter(t.internal_event_emissions, pre.flags)
        nxt == transitions(table, t.target)
    IN  \E m \in 1..Len(nxt) :
            \A c \in 1..Len(nxt[m].conditions) :
                TransitionCondition_evaluate(nxt[m].conditions[c], 0,
                                             call.key, after)

\* C19: one call commits at most one transition.  When the transition that
\* wins leads to a state one of whose transitions would match the same
\* input at elapsed 0, the call still returns the winner's key events
\* alone, applies the winner's internal events alone and stops in the
\* winner's target, entered at the call's now.
C19_SingleStep ==
    ClockOk =>
        \A i \in 1..Len(PreTransitions) :
            (Lowest(i) /\ WouldChain(i)) =>
                /\ outcome = "fired"
                /\ ret = PreTransitions[i].key_event_emissions
                /\ flags = FlagsAfter(
                       PreTransitions[i].internal_event_emissions, pre.flags)
                /\ current_state = PreTransitions[i].target
                /\ entered_state = call.now

\* Press(1) in MOD of the mod_tap table fired MOD_TAP_OTHER_TRANS into
\* MOD_HOLD, where MOD_HOLD_OTHER_TRANS matches Press(1) too: only the three
\* key events of the first came back.
C19_Witness ==
    /\ table = "mod_tap"
    /\ pre.current_state = "MOD"
    /\ call.key = <<Press(1)>>
    /\ Lowest(2)
    /\ WouldChain(2)
    /\ ret = <<Press(2), Press(1), Depress(1)>>
    /\ current_state = "MOD_HOLD"

IsKey2(e) == e.code = 2

\* The events for key 2 among those the call returned continue the
\* alternation Press(2), Depress(2), ... of those returned before it (none
\* before: the first is a Press).
Key2Alternates ==
    LET k2 == SelectSeq(ret, IsKey2)
        before(n) == IF n = 1 THEN pre.last_emitted[2] ELSE k2[n - 1].variant
    IN  \A n \in 1..Len(k2) :
            k2[n].variant = IF before(n) = "Press" THEN "Depress" ELSE "Press"

\* C20: the mod_tap table, from ROOT with empty flags, after any calls: SHFT
\* is set iff current_state is MOD_HOLD, CTRL is never set, and the events
\* emitted for key 2 alternate Press(2), Depress(2), starting with Press(2).
C20_ModTapInvariant ==
    table = "mod_tap" =>
        /\ (SHFT \subseteq flags) <=> (current_state = "MOD_HOLD")
        /\ ~(CTRL \subseteq flags)
        /\ Key2Alternates

\* Key 2 was pressed a second time, after its release: the engine is in
\* MOD_HOLD again with SHFT set.
C20_Witness ==
    /\ table = "mod_tap"
    /\ pre.last_emitted[2] = "Depress"
    /\ Len(ret) > 0
    /\ ret[1] = Press(2)
    /\ last_emitted[2] = "Press"
    /\ current_state = "MOD_HOLD"
    /\ flags = SHFT

\* C21: the mod_tap_better table, from ROOT with empty flags, after any
\* calls: Press(2) is emitted only by a call that starts with SHFT clear and
\* Depress(2) only by a call that starts with SHFT set, so the events emitted
\* for key 2 alternate Press(2), Depress(2), and SHFT is set exactly while
\* key 2 is held (the last event emitted for it is its Press).
C21_BetterKey2Alternates ==
    table = "mod_tap_better" =>
        /\ \A n \in 1..Len(ret) :
              /\ ret[n] = Press(2) => ~(SHFT \subseteq pre.flags)
              /\ ret[n] = Depress(2) => SHFT \subseteq pre.flags
        /\ Key2Alternates
        /\ (SHFT \subseteq flags) <=> (last_emitted[2] = "Press")

\* C22: for every mask m and flag set f, StateNotSet(m) is the negation of
\* StateSet(m); StateSet(m) is true iff every bit of m is set in f, so
\* StateNotSet(m) is true as soon as one bit of m is clear; and both give the
\* same answer whatever the elapsed time and the input.
C22_NotSetNegatesSet ==
    probe.pc = "done" =>
        LET i == probe.in
            all_set == \A b \in i.mask : b \in i.state
            one_clear == \E b \in i.mask : b \notin i.state
        IN  /\ probe.out.StateNotSet = ~probe.out.StateSet
            /\ probe.out.StateSet = all_set
            /\ one_clear => probe.out.StateNotSet
            /\ \A el \in Time, key \in {<<>>} \cup {<<e>> : e \in InputEvent} :
                  /\ TransitionCondition_evaluate(StateSet(i.mask), el, key,
                                                  i.state) = probe.out.StateSet
                  /\ TransitionCondition_evaluate(StateNotSet(i.mask), el, key,
                                                  i.state)
                        = probe.out.StateNotSet

\* The mask CTRL|SHFT against the flags {CTRL}: one bit set, one clear.
C22_Witness ==
    /\ probe.pc = "done"
    /\ probe.in.mask = CTRL \cup SHFT
    /\ probe.in.state = CTRL
    /\ probe.out.StateNotSet
    /\ ~probe.out.StateSet

====
